---- MODULE Spec2Model ----
(***************************************************************************)
(* Resilient.execute, RetryPolicy and CircuitBreaker of the Resiliency     *)
(* library, as a state machine.                                            *)
(*                                                                         *)
(* JavaScript runs one piece of synchronous code at a time.  `running` is  *)
(* the execute call whose synchronous code is on the stack (0: none).  A   *)
(* call suspended at an `await` of a hook's return value is resumed from   *)
(* the microtask queue; a call suspended on a timer or on the operation is *)
(* resumed by an event.  Timers fire only when nothing runs and no call    *)
(* waits in the microtask queue.                                           *)
(***************************************************************************)
EXTENDS Integers, Sequences, FiniteSets, TLC

\* ------------------------------------------------------------------ bounds
NumCalls == 2        \* execute calls modelled
MaxK == 3            \* largest stopAfter(K)
MaxT == 2            \* largest openCircuitAfter(T)
MaxCtl == 2          \* direct open() and close() calls by the breaker's owner
MaxD == 2            \* largest delayBetweenRetries(D)
MaxR == 1            \* largest throttle(R)
MaxBuilds == 3       \* builder calls with a numeric argument
Ms == 2              \* durations are counted in ticks: ticks to the millisecond
MaxExc == MaxK + 2   \* exceptions recorded per context; further pushes leave it full
MaxLog == 3 * MaxK + 6   \* hook notifications recorded per call
MaxTrips == NumCalls * (2 * MaxK + 1)   \* onTrip notifications recorded

Calls == 1..NumCalls

\* ------------------------------------------------------- CircuitState enum
Closed == "Closed"
HalfOpen == "Half-Open"
Isolated == "Isolated"
Open == "Open"
\* CircuitState.Isolate is no key of the enum: the expression is undefined
Isolate == "undefined"

CircuitState == {Closed, HalfOpen, Isolated, Open}

\* Guard.assertEnum(state, CircuitState, ...) returns (TRUE) or throws (FALSE);
\* Guard.js is not among these sources: a key of the enum passes, what it does
\* with another value is left open
assertEnum(state) == IF state \in CircuitState THEN {TRUE} ELSE BOOLEAN

\* execute's value when it ends without a result
Undefined == "undefined"

VARIABLES
  resilient,         \* the orchestrator's configuration (shared by its instances)
  retryPolicy,       \* the RetryPolicy's fields
  circuitBreaker,    \* the CircuitBreaker: configuration, state, timer, onTrip log
  executionContext,  \* per Resilient instance: the call whose context it holds (0: none)
  ctx,               \* the ExecutionContext created by each call
  inst,              \* the Resilient instance each call runs on
  pc,                \* where each execute call stands
  running,           \* the call whose synchronous code is executing (0: none)
  result,            \* per call: the settled result of its current attempt
  returned,          \* per call: what execute returned
  hookLog,           \* per call: the hooks it fired, in order
  opCalls,           \* per call: how often it invoked the operation
  opLog,             \* per call: the outcome of each of its attempts, in order
  probes,            \* n: attempts admitted since the breaker last became Half-Open
                     \* (armed: it did, and was not closed since)
  env,               \* what the callers do: execute calls to start, whether they
                     \* interleave, direct open()/close() and isolate() calls left,
                     \* builder calls left and the last one made
  abandoned,         \* per call: operations still running whose race the deadline won
  clock              \* time spent in timers: timer (per call: the delay its wait is
                     \* sleeping), waited (per call: the delays it has slept), since
                     \* (the delays and deadlines the orchestrator sat through after
                     \* it last invoked the operation; -1: not invoked yet)

vars == <<resilient, retryPolicy, circuitBreaker, executionContext, ctx, inst, pc,
          running, result, returned, hookLog, opCalls, opLog, probes, env, clock,
          abandoned>>

\* no builder call made yet
NoCall == [op |-> "none", arg |-> 0, raised |-> FALSE]

\* Guard.assertCondition(condition, ...) returns (TRUE) or throws ArgumentError
\* (FALSE); Guard.js is not among these sources
assertCondition(condition) == condition

\* time t after d more units, as far as it is counted
Elapse(t, d, max) == IF t + d < max THEN t + d ELSE max

\* a bounded record of a growing list: once full it stays as it is
Push(s, e, max) == IF Len(s) < max THEN Append(s, e) ELSE s

Count(s, e) == Cardinality({i \in 1..Len(s) : s[i] = e})

\* ------------------------------------------------------------- RetryPolicy
NewRetryPolicy ==
  [abortConditions |-> {}, backoff |-> "Static", delay |-> 0, maxAttempts |-> 1,
   onAbort |-> FALSE, onRetry |-> FALSE, retryConditions |-> {}]

canAbortIf(r) == r \in retryPolicy.abortConditions

\* mutant: the retry test looks the result up in the abort conditions
canRetryIf_AbortList(r) == r \in retryPolicy.abortConditions

canRetryIf(r) == r \in retryPolicy.retryConditions

\* the Backoff enum
Backoff == {"Static", "Linear", "Exponential", "Random"}

\* ---------------------------------------------------------- CircuitBreaker
NewCircuitBreaker ==
  [attempts |-> 0, failureThreshold |-> 0, onTrip |-> FALSE, openTimestamp |-> Undefined,
   resetTimeout |-> 0, state |-> Closed,
   timerLive |-> FALSE,   \* timerId names a timer that is still pending
   pending |-> 0,         \* reset timers pending
   trips |-> <<>>]        \* the (from, to) pairs onTrip was called with

\* mutant: the reset timer is left running
clearTimeout_LeavesTimer(b) == b

clearTimeout(b) ==
  IF b.timerLive THEN [b EXCEPT !.timerLive = FALSE, !.pending = @ - 1] ELSE b

\* mutant: a transition into the current state is carried out like any other
transitionTo_NoShortcut(b, state) ==
  LET from == b.state
      b1 == [b EXCEPT !.state = state]
      b2 == IF state = Closed
              THEN clearTimeout([b1 EXCEPT !.attempts = 0, !.openTimestamp = "null"])
            ELSE IF state = HalfOpen
              THEN [b1 EXCEPT !.attempts = b1.failureThreshold - 1]
            ELSE IF state = Isolate
              THEN clearTimeout([b1 EXCEPT !.openTimestamp = "now"])
            ELSE IF state = Open
              THEN [b1 EXCEPT !.timerLive = TRUE, !.pending = @ + 1,
                              !.openTimestamp = "now"]
            ELSE b1
  IN IF b2.onTrip THEN [b2 EXCEPT !.trips = Push(@, <<from, state>>, MaxTrips)]
     ELSE b2

transitionTo(b, state) ==
  IF b.state = state THEN b
  ELSE LET from == b.state
           b1 == [b EXCEPT !.state = state]
           b2 == IF state = Closed
                   THEN clearTimeout([b1 EXCEPT !.attempts = 0, !.openTimestamp = "null"])
                 ELSE IF state = HalfOpen
                   THEN [b1 EXCEPT !.attempts = b1.failureThreshold - 1]
                 ELSE IF state = Isolate
                   THEN clearTimeout([b1 EXCEPT !.openTimestamp = "now"])
                 ELSE IF state = Open
                   THEN [b1 EXCEPT !.timerLive = TRUE, !.pending = @ + 1,
                                   !.openTimestamp = "now"]
                 ELSE b1
       IN IF b2.onTrip THEN [b2 EXCEPT !.trips = Push(@, <<from, state>>, MaxTrips)]
          ELSE b2

\* CircuitBreaker.execute throws OpenCircuitError
breakerRejects(b) == b.state = Isolate \/ b.state = Open

\* CircuitBreaker.execute when it does not throw
breakerExecute(b) ==
  LET b1 == [b EXCEPT !.attempts = @ + 1]
  IN IF b1.attempts > b1.failureThreshold THEN transitionTo(b1, Open) ELSE b1

close(b) == transitionTo(b, Closed)

\* mutant: entering Open schedules no reset timer
open_NoTimer(b) ==
  IF b.state = Open THEN b
  ELSE LET b1 == [b EXCEPT !.state = Open, !.openTimestamp = "now"]
       IN IF b1.onTrip THEN [b1 EXCEPT !.trips = Push(@, <<b.state, Open>>, MaxTrips)]
          ELSE b1

open(b) == transitionTo(b, Open)

\* isolate(): transitionTo(this, CircuitState.Isolate), as far as assertEnum lets it
isolate(b) == {IF passes THEN transitionTo(b, Isolate) ELSE b : passes \in assertEnum(Isolate)}

\* -------------------------------------------------------- ExecutionContext
\* startTime: the values of Date.now() it was assigned (0: undefined, 2: more
\* than one)
NewExecutionContext == [attempts |-> 0, exceptions |-> <<>>, startTime |-> 0]

\* the context `this.executionContext` names for call p
cur(p) == executionContext[inst[p]]

\* ---------------------------------------------------------------- Resilient
\* mutant: without a policy the loop runs while attempts <= 1
shouldRetry_OnceMore(attempts) ==
  IF resilient.retryPolicy
    THEN IF retryPolicy.maxAttempts = 0 THEN TRUE
         ELSE attempts < retryPolicy.maxAttempts
    ELSE attempts <= 1

\* mutant: the loop runs while attempts <= maxAttempts
shouldRetry_Inclusive(attempts) ==
  IF resilient.retryPolicy
    THEN IF retryPolicy.maxAttempts = 0 THEN TRUE
         ELSE attempts <= retryPolicy.maxAttempts
    ELSE attempts = 0

shouldRetry(attempts) ==
  IF resilient.retryPolicy
    THEN IF retryPolicy.maxAttempts = 0 THEN TRUE
         ELSE attempts < retryPolicy.maxAttempts
    ELSE attempts = 0

\* mutant: the exponential delay is 2^attempts * delay
wait_PowerOfTwo(attempts) ==
  LET delay == retryPolicy.delay IN
  IF retryPolicy.backoff = "Exponential" THEN {2 ^ attempts * delay}
  ELSE IF retryPolicy.backoff = "Linear" THEN {attempts * delay}
  ELSE IF retryPolicy.backoff = "Static" THEN {delay}
  ELSE IF retryPolicy.backoff = "Random" THEN {randomNumber * delay : randomNumber \in 1..10}
  ELSE {delay}

\* wait(resilient): the delays its timer can be set to
wait(attempts) ==
  LET delay == retryPolicy.delay IN
  IF retryPolicy.backoff = "Exponential" THEN {attempts ^ attempts * delay}
  ELSE IF retryPolicy.backoff = "Linear" THEN {attempts * delay}
  ELSE IF retryPolicy.backoff = "Static" THEN {delay}
  ELSE IF retryPolicy.backoff = "Random" THEN {randomNumber * delay : randomNumber \in 1..10}
  ELSE {delay}

\* the delays of a call are added up as far as the longest waits of
\* maxAttempts retries reach; a larger sum stays there
RECURSIVE LongestWaits(_)
LongestWaits(n) ==
  IF n = 0 THEN 0
  ELSE LongestWaits(n - 1) + CHOOSE d \in wait(n) : \A e \in wait(n) : e <= d

\* calls suspended at an await of a hook's return value
MicroAwait == {"entryAwait", "retryAwait", "successAwait", "exitAwaitS", "timeoutAwait",
               "failureAwait", "exitAwaitF", "fallbackHookAwait"}

microQueued == \E q \in Calls : pc[q] \in MicroAwait

\* the event loop can take a timer: nothing runs, the microtask queue is empty
idle == running = 0 /\ ~microQueued

Fire(p, h) == hookLog' = [hookLog EXCEPT ![p] = Push(@, h, MaxLog)]

pushException(p, e) ==
  ctx' = [ctx EXCEPT ![cur(p)].exceptions = Push(@, e, MaxExc)]

\* the continuation of each await of a hook's return value
After(l) ==
  CASE l = "entryAwait" -> "loop"
    [] l = "retryAwait" -> "breaker"
    [] l = "successAwait" -> "close"
    [] l = "exitAwaitS" -> "return"
    [] l = "timeoutAwait" -> "push"
    [] l = "failureAwait" -> "exit"
    [] l = "exitAwaitF" -> "fallback"
    [] l = "fallbackHookAwait" -> "fallbackCall"

\* ------------------------------------------------------------ configurations
\* RetryPolicy builders: stopAfter, delayBetweenRetries, abortIf, retryIf, ifAbort, ifRetry
Policies ==
  {[NewRetryPolicy EXCEPT !.maxAttempts = k, !.delay = d, !.abortConditions = ac,
                          !.retryConditions = rc, !.onAbort = oa, !.onRetry = orr] :
     k \in 1..MaxK, d \in {0, 1}, ac \in {{}, {"A"}}, rc \in {{}, {"R"}},
     oa \in BOOLEAN, orr \in BOOLEAN}

\* CircuitBreaker builders: openCircuitAfter, resetAfter, ifTripped
Breakers ==
  {[NewCircuitBreaker EXCEPT !.failureThreshold = t, !.resetTimeout = 1, !.onTrip = TRUE] :
     t \in 1..MaxT}

\* Resilient builders: retryWith, shortCircuitWith, timeoutAfter, fallbackTo and the
\* hook registrars (all lifecycle hooks registered, or none)
Resilients ==
  [retryPolicy : BOOLEAN, circuitBreaker : BOOLEAN, timeout : {0, 1},
   fallbackExecution : BOOLEAN, hooks : BOOLEAN,
   rateLimit : {0},         \* no builder assigns rateLimit
   throttleLimit : {0}]     \* throttle(rateLimit) not called

\* what the operation settles with: values the policy tells apart, or an error
Outcomes == {"S", "Error"} \cup retryPolicy.abortConditions \cup retryPolicy.retryConditions

InitCommon ==
  /\ executionContext = [i \in Calls |-> 0]
  /\ ctx = [p \in Calls |-> NewExecutionContext]
  /\ pc = [p \in Calls |-> "idle"]
  /\ running = 0
  /\ result = [p \in Calls |-> Undefined]
  /\ returned = [p \in Calls |-> "pending"]
  /\ hookLog = [p \in Calls |-> <<>>]
  /\ opCalls = [p \in Calls |-> 0]
  /\ opLog = [p \in Calls |-> <<>>]
  /\ probes = [armed |-> FALSE, n |-> 0]
  /\ abandoned = [p \in Calls |-> 0]
  /\ clock = [timer |-> [p \in Calls |-> 0], waited |-> [p \in Calls |-> 0], since |-> -1]

\* one execute call, every configuration
Init ==
  /\ InitCommon
  /\ resilient \in Resilients
  /\ retryPolicy \in (IF resilient.retryPolicy THEN Policies ELSE {NewRetryPolicy})
  /\ circuitBreaker \in (IF resilient.circuitBreaker THEN Breakers ELSE {NewCircuitBreaker})
  /\ inst = [p \in Calls |-> 1]
  /\ env = [calls |-> 1, interleave |-> FALSE, ctl |-> 0, isolates |-> 0,
            builds |-> 0, last |-> NoCall]

\* ------------------------------------------------------------------ execute
started == Cardinality({q \in Calls : pc[q] # "idle"})

\* execute(userCode): new context, onEntry                       (lines 153-160)
Start(p) ==
  /\ running = 0
  /\ pc[p] = "idle"
  /\ p = started + 1
  /\ p <= env.calls
  /\ env.interleave \/ \A q \in Calls : pc[q] \in {"idle", "done"}
  /\ executionContext' = [executionContext EXCEPT ![inst[p]] = p]
  /\ ctx' = [ctx EXCEPT ![p] = NewExecutionContext]
  /\ IF resilient.hooks
       THEN /\ Fire(p, "onEntry")
            /\ pc' = [pc EXCEPT ![p] = "entryAwait"]
            /\ UNCHANGED running
       ELSE /\ pc' = [pc EXCEPT ![p] = "loop"]
            /\ running' = p
            /\ UNCHANGED hookLog
  /\ UNCHANGED <<resilient, retryPolicy, circuitBreaker, inst, result, returned,
                 opCalls, opLog, probes, env, clock, abandoned>>

\* the microtask queue resumes a call after an awaited hook
Resume(p) ==
  /\ running = 0
  /\ pc[p] \in MicroAwait
  /\ running' = p
  /\ pc' = [pc EXCEPT ![p] = After(pc[p])]
  /\ UNCHANGED <<resilient, retryPolicy, circuitBreaker, executionContext, ctx, inst,
                 result, returned, hookLog, opCalls, opLog, probes, env, clock, abandoned>>

\* while (shouldRetry(this)) is false                              (line 162)
LoopExit(p) ==
  /\ running = p
  /\ pc[p] = "loop"
  /\ ~shouldRetry(ctx[cur(p)].attempts)
  /\ pc' = [pc EXCEPT ![p] = "failure"]
  /\ UNCHANGED <<resilient, retryPolicy, circuitBreaker, executionContext, ctx, inst,
                 running, result, returned, hookLog, opCalls, opLog, probes, env, clock, abandoned>>

\* first iteration: startTime = Date.now()                    (lines 162-175)
LoopFirst(p) ==
  /\ running = p
  /\ pc[p] = "loop"
  /\ shouldRetry(ctx[cur(p)].attempts)
  /\ ~(ctx[cur(p)].attempts > 0)
  /\ ctx' = [ctx EXCEPT ![cur(p)].startTime = IF @ < 2 THEN @ + 1 ELSE @]
  /\ pc' = [pc EXCEPT ![p] = "breaker"]
  /\ UNCHANGED <<resilient, retryPolicy, circuitBreaker, executionContext, inst,
                 running, result, returned, hookLog, opCalls, opLog, probes, env, clock, abandoned>>

\* a retry: await wait(this) when the policy has a delay       (lines 166-169)
LoopRetry(p) ==
  /\ running = p
  /\ pc[p] = "loop"
  /\ shouldRetry(ctx[cur(p)].attempts)
  /\ ctx[cur(p)].attempts > 0
  /\ IF retryPolicy.delay > 0
       THEN /\ pc' = [pc EXCEPT ![p] = "wait"]
            /\ running' = 0
            /\ \E delay \in wait(ctx[cur(p)].attempts) :
                 clock' = [clock EXCEPT !.timer[p] = delay]
       ELSE /\ pc' = [pc EXCEPT ![p] = "retry"]
            /\ UNCHANGED <<running, clock>>
  /\ UNCHANGED <<resilient, retryPolicy, circuitBreaker, executionContext, ctx, inst,
                 result, returned, hookLog, opCalls, opLog, probes, env, abandoned>>

\* the delay's timer fires                                     (line 504)
WaitDone(p) ==
  /\ idle
  /\ pc[p] = "wait"
  /\ running' = p
  /\ pc' = [pc EXCEPT ![p] = "retry"]
  /\ clock' = [clock EXCEPT !.timer[p] = 0,
                            !.waited[p] = Elapse(@, clock.timer[p], LongestWaits(retryPolicy.maxAttempts)),
                            !.since = IF @ < 0 THEN @ ELSE Elapse(@, clock.timer[p], MaxR)]
  /\ UNCHANGED <<resilient, retryPolicy, circuitBreaker, executionContext, ctx, inst,
                 result, returned, hookLog, opCalls, opLog, probes, env, abandoned>>

\* mutant: onRetry is called only inside the branch that waited
Retry_HookAfterDelayOnly(p) ==
  /\ running = p
  /\ pc[p] = "retry"
  /\ IF retryPolicy.onRetry /\ retryPolicy.delay > 0
       THEN /\ Fire(p, "onRetry")
            /\ pc' = [pc EXCEPT ![p] = "retryAwait"]
            /\ running' = 0
       ELSE /\ pc' = [pc EXCEPT ![p] = "breaker"]
            /\ UNCHANGED <<running, hookLog>>
  /\ UNCHANGED <<resilient, retryPolicy, circuitBreaker, executionContext, ctx, inst,
                 result, returned, opCalls, opLog, probes, env, clock, abandoned>>

\* await this.retryPolicy.onRetry(...)                         (lines 171-172)
Retry(p) ==
  /\ running = p
  /\ pc[p] = "retry"
  /\ IF retryPolicy.onRetry
       THEN /\ Fire(p, "onRetry")
            /\ pc' = [pc EXCEPT ![p] = "retryAwait"]
            /\ running' = 0
       ELSE /\ pc' = [pc EXCEPT ![p] = "breaker"]
            /\ UNCHANGED <<running, hookLog>>
  /\ UNCHANGED <<resilient, retryPolicy, circuitBreaker, executionContext, ctx, inst,
                 result, returned, opCalls, opLog, probes, env, clock, abandoned>>

\* the probes count after a step that leaves the breaker as b2
probed(b2, admitted) ==
  IF b2.state = Closed THEN [armed |-> FALSE, n |-> 0]
  ELSE IF b2.state = HalfOpen /\ circuitBreaker.state # HalfOpen THEN [armed |-> TRUE, n |-> 0]
  ELSE IF admitted /\ probes.armed THEN [probes EXCEPT !.n = @ + 1]
  ELSE probes

\* mutant: a rejected attempt counts against the threshold
Reject_CountsFault(p) ==
  /\ running = p
  /\ pc[p] = "breaker"
  /\ resilient.circuitBreaker
  /\ breakerRejects(circuitBreaker)
  /\ circuitBreaker' = [circuitBreaker EXCEPT !.attempts = @ + 1]
  /\ pushException(p, "OpenCircuitError")
  /\ pc' = [pc EXCEPT ![p] = "loop"]
  /\ UNCHANGED <<resilient, retryPolicy, executionContext, inst,
                 running, result, returned, hookLog, opCalls, opLog, probes, env, clock, abandoned>>

\* this.circuitBreaker.execute() throws; catch pushes the error (lines 177-178, 216-229)
Reject(p) ==
  /\ running = p
  /\ pc[p] = "breaker"
  /\ resilient.circuitBreaker
  /\ breakerRejects(circuitBreaker)
  /\ pushException(p, "OpenCircuitError")
  /\ pc' = [pc EXCEPT ![p] = "loop"]
  /\ UNCHANGED <<resilient, retryPolicy, circuitBreaker, executionContext, inst,
                 running, result, returned, hookLog, opCalls, opLog, probes, env, clock, abandoned>>

\* the breaker lets the attempt pass; attempts++; the operation is invoked:
\* userCode(), or with a rateLimit the function throttle returns, run as the
\* executor of a promise that nothing resolves                 (lines 177-192)
Admit(p) ==
  /\ running = p
  /\ pc[p] = "breaker"
  /\ ~(resilient.circuitBreaker /\ breakerRejects(circuitBreaker))
  /\ circuitBreaker' = IF resilient.circuitBreaker THEN breakerExecute(circuitBreaker)
                       ELSE circuitBreaker
  /\ ctx' = [ctx EXCEPT ![cur(p)].attempts = @ + 1]
  /\ opCalls' = [opCalls EXCEPT ![p] = @ + 1]
  /\ pc' = [pc EXCEPT ![p] = IF resilient.rateLimit > 0 THEN "throttled" ELSE "race"]
  /\ running' = 0
  /\ probes' = IF resilient.circuitBreaker THEN probed(circuitBreaker', TRUE) ELSE probes
  /\ clock' = [clock EXCEPT !.since = 0]
  /\ UNCHANGED <<resilient, retryPolicy, executionContext, inst, result, returned,
                 hookLog, opLog, env, abandoned>>

\* the operation settles first: result = await Promise.race(promises)   (line 192)
OpSettle(p) ==
  /\ running = 0
  /\ pc[p] = "race"
  /\ \E o \in Outcomes :
       /\ result' = [result EXCEPT ![p] = o]
       /\ opLog' = [opLog EXCEPT ![p] = Push(@, o, MaxLog)]
       /\ pc' = [pc EXCEPT ![p] = IF o = "Error" THEN "catch" ELSE "classify"]
  /\ running' = p
  /\ UNCHANGED <<resilient, retryPolicy, circuitBreaker, executionContext, ctx, inst,
                 returned, hookLog, opCalls, probes, env, clock, abandoned>>

\* the deadline's timer fires first: the race rejects with TimeoutError (line 185)
TimeoutFire(p) ==
  /\ idle
  /\ pc[p] \in {"race", "throttled"}
  /\ resilient.timeout > 0
  /\ result' = [result EXCEPT ![p] = "TimeoutError"]
  /\ opLog' = [opLog EXCEPT ![p] = Push(@, "TimeoutError", MaxLog)]
  /\ pc' = [pc EXCEPT ![p] = "catch"]
  /\ running' = p
  /\ clock' = [clock EXCEPT !.since = Elapse(@, resilient.timeout, MaxR)]
  /\ abandoned' = [abandoned EXCEPT ![p] = @ + 1]
  /\ UNCHANGED <<resilient, retryPolicy, circuitBreaker, executionContext, ctx, inst,
                 returned, hookLog, opCalls, probes, env>>

\* mutant: the late error of an abandoned operation is recorded
LateSettle_Records(p) ==
  /\ running = 0
  /\ abandoned[p] > 0
  /\ abandoned' = [abandoned EXCEPT ![p] = @ - 1]
  /\ pushException(p, "Error")
  /\ UNCHANGED <<resilient, retryPolicy, circuitBreaker, executionContext, inst, pc,
                 running, result, returned, hookLog, opCalls, opLog, probes, env, clock>>

\* an operation whose race the deadline won settles: Promise.race has settled
\* already and ignores it                                     (line 192)
LateSettle(p) ==
  /\ running = 0
  /\ abandoned[p] > 0
  /\ abandoned' = [abandoned EXCEPT ![p] = @ - 1]
  /\ UNCHANGED <<resilient, retryPolicy, circuitBreaker, executionContext, ctx, inst, pc,
                 running, result, returned, hookLog, opCalls, opLog, probes, env, clock>>

\* mutant: no break after onAbort, the aborted result goes on to onSuccess
Abort_FallsThrough(p) ==
  /\ running = p
  /\ pc[p] = "classify"
  /\ resilient.retryPolicy
  /\ canAbortIf(result[p])
  /\ IF retryPolicy.onAbort
       THEN /\ hookLog' = [hookLog EXCEPT
                             ![p] = Push(Push(@, "onAbort", MaxLog), "onSuccess", MaxLog)]
            /\ pc' = [pc EXCEPT ![p] = "close"]
            /\ UNCHANGED result
       ELSE /\ result' = [result EXCEPT ![p] = "TypeError"]
            /\ pc' = [pc EXCEPT ![p] = "catch"]
            /\ UNCHANGED hookLog
  /\ UNCHANGED <<resilient, retryPolicy, circuitBreaker, executionContext, ctx, inst,
                 running, returned, opCalls, opLog, probes, env, clock, abandoned>>

\* canAbortIf(result): onAbort(...) and break; onAbort is called unguarded,
\* so an unregistered hook raises a TypeError inside the try   (lines 194-200)
Abort(p) ==
  /\ running = p
  /\ pc[p] = "classify"
  /\ resilient.retryPolicy
  /\ canAbortIf(result[p])
  /\ IF retryPolicy.onAbort
       THEN /\ Fire(p, "onAbort")
            /\ pc' = [pc EXCEPT ![p] = "failure"]
            /\ UNCHANGED result
       ELSE /\ result' = [result EXCEPT ![p] = "TypeError"]
            /\ pc' = [pc EXCEPT ![p] = "catch"]
            /\ UNCHANGED hookLog
  /\ UNCHANGED <<resilient, retryPolicy, circuitBreaker, executionContext, ctx, inst,
                 running, returned, opCalls, opLog, probes, env, clock, abandoned>>

\* canRetryIf(result): continue                                (lines 201-202)
ForcedRetry(p) ==
  /\ running = p
  /\ pc[p] = "classify"
  /\ resilient.retryPolicy
  /\ ~canAbortIf(result[p])
  /\ canRetryIf(result[p])
  /\ pc' = [pc EXCEPT ![p] = "loop"]
  /\ UNCHANGED <<resilient, retryPolicy, circuitBreaker, executionContext, ctx, inst,
                 running, result, returned, hookLog, opCalls, opLog, probes, env, clock, abandoned>>

\* no condition matches: await this.onSuccess(...)             (lines 205-206)
Succeed(p) ==
  /\ running = p
  /\ pc[p] = "classify"
  /\ ~(resilient.retryPolicy /\ (canAbortIf(result[p]) \/ canRetryIf(result[p])))
  /\ IF resilient.hooks
       THEN /\ Fire(p, "onSuccess")
            /\ pc' = [pc EXCEPT ![p] = "successAwait"]
            /\ running' = 0
       ELSE /\ pc' = [pc EXCEPT ![p] = "close"]
            /\ UNCHANGED <<running, hookLog>>
  /\ UNCHANGED <<resilient, retryPolicy, circuitBreaker, executionContext, ctx, inst,
                 result, returned, opCalls, opLog, probes, env, clock, abandoned>>

\* mutant: onExit is awaited before the breaker is closed
Close_ExitBeforeClose(p) ==
  /\ running = p
  /\ pc[p] = "close"
  /\ IF resilient.hooks
       THEN /\ Fire(p, "onExit")
            /\ pc' = [pc EXCEPT ![p] = "exitAwaitS"]
            /\ running' = 0
            /\ UNCHANGED circuitBreaker
       ELSE /\ pc' = [pc EXCEPT ![p] = "return"]
            /\ circuitBreaker' = IF resilient.circuitBreaker THEN close(circuitBreaker)
                                 ELSE circuitBreaker
            /\ UNCHANGED <<running, hookLog>>
  /\ probes' = IF resilient.circuitBreaker THEN probed(circuitBreaker', FALSE) ELSE probes
  /\ UNCHANGED <<resilient, retryPolicy, executionContext, ctx, inst, result, returned,
                 opCalls, opLog, env, clock, abandoned>>

\* this.circuitBreaker.close(); await this.onExit(...)         (lines 208-212)
Close(p) ==
  /\ running = p
  /\ pc[p] = "close"
  /\ circuitBreaker' = IF resilient.circuitBreaker THEN close(circuitBreaker)
                       ELSE circuitBreaker
  /\ IF resilient.hooks
       THEN /\ Fire(p, "onExit")
            /\ pc' = [pc EXCEPT ![p] = "exitAwaitS"]
            /\ running' = 0
       ELSE /\ pc' = [pc EXCEPT ![p] = "return"]
            /\ UNCHANGED <<running, hookLog>>
  /\ probes' = IF resilient.circuitBreaker THEN probed(circuitBreaker', FALSE) ELSE probes
  /\ UNCHANGED <<resilient, retryPolicy, executionContext, ctx, inst, result, returned,
                 opCalls, opLog, env, clock, abandoned>>

\* return result                                               (line 214)
Return(p) ==
  /\ running = p
  /\ pc[p] = "return"
  /\ returned' = [returned EXCEPT ![p] = result[p]]
  /\ pc' = [pc EXCEPT ![p] = "done"]
  /\ running' = 0
  /\ UNCHANGED <<resilient, retryPolicy, circuitBreaker, executionContext, ctx, inst,
                 result, hookLog, opCalls, opLog, probes, env, clock, abandoned>>

\* mutant: catch awaits onTimeout whatever the error is
Catch_HookForEveryError(p) ==
  /\ running = p
  /\ pc[p] = "catch"
  /\ IF resilient.hooks
       THEN /\ Fire(p, "onTimeout")
            /\ pc' = [pc EXCEPT ![p] = "timeoutAwait"]
            /\ running' = 0
       ELSE /\ pc' = [pc EXCEPT ![p] = "push"]
            /\ UNCHANGED <<running, hookLog>>
  /\ UNCHANGED <<resilient, retryPolicy, circuitBreaker, executionContext, ctx, inst,
                 result, returned, opCalls, opLog, probes, env, clock, abandoned>>

\* catch (e): a TimeoutError first awaits onTimeout             (lines 216-222)
Catch(p) ==
  /\ running = p
  /\ pc[p] = "catch"
  /\ IF result[p] = "TimeoutError" /\ resilient.hooks
       THEN /\ Fire(p, "onTimeout")
            /\ pc' = [pc EXCEPT ![p] = "timeoutAwait"]
            /\ running' = 0
       ELSE /\ pc' = [pc EXCEPT ![p] = "push"]
            /\ UNCHANGED <<running, hookLog>>
  /\ UNCHANGED <<resilient, retryPolicy, circuitBreaker, executionContext, ctx, inst,
                 result, returned, opCalls, opLog, probes, env, clock, abandoned>>

\* this.executionContext.exceptions.push(e); back to the loop  (lines 224-229)
PushError(p) ==
  /\ running = p
  /\ pc[p] = "push"
  /\ pushException(p, result[p])
  /\ pc' = [pc EXCEPT ![p] = "loop"]
  /\ UNCHANGED <<resilient, retryPolicy, circuitBreaker, executionContext, inst,
                 running, result, returned, hookLog, opCalls, opLog, probes, env, clock, abandoned>>

\* after the loop: await this.onFailure(...)                   (lines 232-233)
Failure(p) ==
  /\ running = p
  /\ pc[p] = "failure"
  /\ IF resilient.hooks
       THEN /\ Fire(p, "onFailure")
            /\ pc' = [pc EXCEPT ![p] = "failureAwait"]
            /\ running' = 0
       ELSE /\ pc' = [pc EXCEPT ![p] = "exit"]
            /\ UNCHANGED <<running, hookLog>>
  /\ UNCHANGED <<resilient, retryPolicy, circuitBreaker, executionContext, ctx, inst,
                 result, returned, opCalls, opLog, probes, env, clock, abandoned>>

\* await this.onExit(...)                                      (lines 235-236)
Exit(p) ==
  /\ running = p
  /\ pc[p] = "exit"
  /\ IF resilient.hooks
       THEN /\ Fire(p, "onExit")
            /\ pc' = [pc EXCEPT ![p] = "exitAwaitF"]
            /\ running' = 0
       ELSE /\ pc' = [pc EXCEPT ![p] = "fallback"]
            /\ UNCHANGED <<running, hookLog>>
  /\ UNCHANGED <<resilient, retryPolicy, circuitBreaker, executionContext, ctx, inst,
                 result, returned, opCalls, opLog, probes, env, clock, abandoned>>

\* mutant: without a fallback execute rethrows the last error
ReturnUndefined_Rethrows(p) ==
  /\ running = p
  /\ pc[p] = "fallback"
  /\ ~resilient.fallbackExecution
  /\ returned' = [returned EXCEPT ![p] = IF Len(ctx[cur(p)].exceptions) > 0 THEN "raised"
                                         ELSE Undefined]
  /\ pc' = [pc EXCEPT ![p] = "done"]
  /\ running' = 0
  /\ UNCHANGED <<resilient, retryPolicy, circuitBreaker, executionContext, ctx, inst,
                 result, hookLog, opCalls, opLog, probes, env, clock, abandoned>>

\* no fallback: execute ends without a result                  (lines 238, 245)
ReturnUndefined(p) ==
  /\ running = p
  /\ pc[p] = "fallback"
  /\ ~resilient.fallbackExecution
  /\ returned' = [returned EXCEPT ![p] = Undefined]
  /\ pc' = [pc EXCEPT ![p] = "done"]
  /\ running' = 0
  /\ UNCHANGED <<resilient, retryPolicy, circuitBreaker, executionContext, ctx, inst,
                 result, hookLog, opCalls, opLog, probes, env, clock, abandoned>>

\* a fallback: await this.onFallback(...)                      (lines 238-241)
Fallback(p) ==
  /\ running = p
  /\ pc[p] = "fallback"
  /\ resilient.fallbackExecution
  /\ IF resilient.hooks
       THEN /\ Fire(p, "onFallback")
            /\ pc' = [pc EXCEPT ![p] = "fallbackHookAwait"]
            /\ running' = 0
       ELSE /\ pc' = [pc EXCEPT ![p] = "fallbackCall"]
            /\ UNCHANGED <<running, hookLog>>
  /\ UNCHANGED <<resilient, retryPolicy, circuitBreaker, executionContext, ctx, inst,
                 result, returned, opCalls, opLog, probes, env, clock, abandoned>>

\* return await this.fallbackExecution(): the call                (line 243)
FallbackCall(p) ==
  /\ running = p
  /\ pc[p] = "fallbackCall"
  /\ Fire(p, "fallback")
  /\ pc' = [pc EXCEPT ![p] = "fallbackAwait"]
  /\ running' = 0
  /\ UNCHANGED <<resilient, retryPolicy, circuitBreaker, executionContext, ctx, inst,
                 result, returned, opCalls, opLog, probes, env, clock, abandoned>>

\* mutant: the fallback's value is awaited and dropped
FallbackSettle_DropsValue(p) ==
  /\ running = 0
  /\ pc[p] = "fallbackAwait"
  /\ \E o \in {Undefined, "raised"} : returned' = [returned EXCEPT ![p] = o]
  /\ pc' = [pc EXCEPT ![p] = "done"]
  /\ UNCHANGED <<resilient, retryPolicy, circuitBreaker, executionContext, ctx, inst,
                 running, result, hookLog, opCalls, opLog, probes, env, clock, abandoned>>

\* ... and its settling: execute returns its value or raises its error (line 243)
FallbackSettle(p) ==
  /\ running = 0
  /\ pc[p] = "fallbackAwait"
  /\ \E o \in {"FB", "raised"} : returned' = [returned EXCEPT ![p] = o]
  /\ pc' = [pc EXCEPT ![p] = "done"]
  /\ UNCHANGED <<resilient, retryPolicy, circuitBreaker, executionContext, ctx, inst,
                 running, result, hookLog, opCalls, opLog, probes, env, clock, abandoned>>

\* ------------------------------------------------- the breaker's reset timer
\* setTimeout(() => transitionTo(circuitBreaker, HalfOpen), resetTimeout) fires:
\* the timer timerId names, or one it no longer names   (CircuitBreaker.js 194)
TimerFire ==
  /\ idle
  /\ circuitBreaker.pending > 0
  /\ \E named \in BOOLEAN :
       /\ named => circuitBreaker.timerLive
       /\ ~named => circuitBreaker.pending > (IF circuitBreaker.timerLive THEN 1 ELSE 0)
       /\ circuitBreaker' =
            transitionTo([circuitBreaker EXCEPT !.pending = @ - 1,
                                                !.timerLive = IF named THEN FALSE ELSE @],
                         HalfOpen)
  /\ probes' = probed(circuitBreaker', FALSE)
  /\ UNCHANGED <<resilient, retryPolicy, executionContext, ctx, inst, pc, running,
                 result, returned, hookLog, opCalls, opLog, env, clock, abandoned>>

\* the breaker's owner calls open()                  (CircuitBreaker.js 130-133)
CallOpen ==
  /\ running = 0
  /\ env.ctl > 0
  /\ circuitBreaker' = open(circuitBreaker)
  /\ probes' = probed(circuitBreaker', FALSE)
  /\ env' = [env EXCEPT !.ctl = @ - 1]
  /\ UNCHANGED <<resilient, retryPolicy, executionContext, ctx, inst, pc, running,
                 result, returned, hookLog, opCalls, opLog, clock, abandoned>>

\* the breaker's owner calls close()                  (CircuitBreaker.js 85-88)
CallClose ==
  /\ running = 0
  /\ env.ctl > 0
  /\ circuitBreaker' = close(circuitBreaker)
  /\ probes' = probed(circuitBreaker', FALSE)
  /\ env' = [env EXCEPT !.ctl = @ - 1]
  /\ UNCHANGED <<resilient, retryPolicy, executionContext, ctx, inst, pc, running,
                 result, returned, hookLog, opCalls, opLog, clock, abandoned>>

\* the breaker's owner calls isolate()              (CircuitBreaker.js 122-125)
CallIsolate ==
  /\ running = 0
  /\ env.isolates > 0
  /\ circuitBreaker' \in isolate(circuitBreaker)
  /\ probes' = probed(circuitBreaker', FALSE)
  /\ env' = [env EXCEPT !.isolates = @ - 1]
  /\ UNCHANGED <<resilient, retryPolicy, executionContext, ctx, inst, pc, running,
                 result, returned, hookLog, opCalls, opLog, clock, abandoned>>

\* execute with a retry policy and a breaker at most: no timeout, no
\* abort/retry condition, no fallback
Attempt(p) ==
  \/ Start(p) \/ Resume(p)
  \/ LoopExit(p) \/ LoopFirst(p) \/ LoopRetry(p) \/ WaitDone(p) \/ Retry(p)
  \/ Reject(p) \/ Admit(p) \/ OpSettle(p)
  \/ Succeed(p) \/ Close(p) \/ Return(p)
  \/ Catch(p) \/ PushError(p)
  \/ Failure(p) \/ Exit(p) \/ ReturnUndefined(p)

\* execute without a breaker, a timeout, a condition or a fallback
Unguarded(p) ==
  \/ Start(p) \/ Resume(p)
  \/ LoopExit(p) \/ LoopFirst(p) \/ LoopRetry(p) \/ WaitDone(p) \/ Retry(p)
  \/ Admit(p) \/ OpSettle(p)
  \/ Succeed(p) \/ Close(p) \/ Return(p)
  \/ Catch(p) \/ PushError(p)
  \/ Failure(p) \/ Exit(p) \/ ReturnUndefined(p)

Step(p) ==
  \/ Attempt(p)
  \/ TimeoutFire(p) \/ Abort(p) \/ ForcedRetry(p)
  \/ Fallback(p) \/ FallbackCall(p) \/ FallbackSettle(p)

Next == (\E p \in Calls : Step(p)) \/ TimerFire

Spec == Init /\ [][Next]_vars

\* ------------------------------------------------- calls that share a breaker
\* execute calls one after the other on a Resilient with a retry policy and a
\* breaker, while the breaker's owner may call open() and close()
SharedBreaker ==
  /\ InitCommon
  /\ resilient \in {r \in Resilients :
                      /\ r.retryPolicy /\ r.circuitBreaker /\ r.timeout = 0
                      /\ ~r.fallbackExecution}
  /\ retryPolicy \in {q \in Policies :
                        /\ q.abortConditions = {} /\ q.retryConditions = {}
                        /\ ~q.onAbort /\ q.onRetry = resilient.hooks}
  /\ circuitBreaker \in Breakers
  /\ inst = [p \in Calls |-> 1]

InitShared ==
  /\ SharedBreaker
  /\ env = [calls |-> NumCalls, interleave |-> FALSE, ctl |-> MaxCtl, isolates |-> 0,
            builds |-> 0, last |-> NoCall]

NextShared == (\E p \in Calls : Attempt(p)) \/ TimerFire \/ CallOpen \/ CallClose

SpecShared == InitShared /\ [][NextShared]_vars

\* one execute call and one direct call; the engine keeps running code that can
\* run, every invocation of the operation settles, and a timer that is due
\* again and again fires
InitFair ==
  /\ SharedBreaker
  /\ retryPolicy.maxAttempts = MaxK
  /\ env = [calls |-> 1, interleave |-> FALSE, ctl |-> 1, isolates |-> 0,
            builds |-> 0, last |-> NoCall]

FairSpec ==
  /\ InitFair
  /\ [][NextShared]_vars
  /\ SF_vars(TimerFire)
  /\ \A p \in Calls : WF_vars(Attempt(p))

\* ------------------------------------------------------- a breaker isolated
\* one execute call on a Resilient with a retry policy and a breaker whose
\* owner calls isolate() once and open() or close() once
InitIsolate ==
  /\ SharedBreaker
  /\ env = [calls |-> 1, interleave |-> FALSE, ctl |-> 1, isolates |-> 1,
            builds |-> 0, last |-> NoCall]

NextIsolate == NextShared \/ CallIsolate

SpecIsolate == InitIsolate /\ [][NextIsolate]_vars

\* ------------------------------------------------------ calls without breaker
NextUnguarded == \E p \in Calls : Unguarded(p)

\* a Resilient with at most a retry policy
Bare ==
  {r \in Resilients : ~r.circuitBreaker /\ r.timeout = 0 /\ ~r.fallbackExecution}

\* a retry policy without conditions
Unconditional ==
  {q \in Policies : q.abortConditions = {} /\ q.retryConditions = {} /\ ~q.onAbort}

\* throttle(rateLimit) called on the Resilient, then execute calls one after
\* the other
InitThrottle ==
  /\ InitCommon
  /\ resilient \in {[r EXCEPT !.throttleLimit = rateLimit] :
                      r \in Bare, rateLimit \in 1..MaxR}
  /\ retryPolicy \in (IF resilient.retryPolicy THEN Unconditional ELSE {NewRetryPolicy})
  /\ circuitBreaker = NewCircuitBreaker
  /\ inst = [p \in Calls |-> 1]
  /\ env \in {[calls |-> n, interleave |-> FALSE, ctl |-> 0, isolates |-> 0,
            builds |-> 0, last |-> NoCall] :
               n \in 1..NumCalls}

SpecThrottle == InitThrottle /\ [][NextUnguarded]_vars

\* one call with a retry policy that delays its retries, every backoff
InitBackoff ==
  /\ InitCommon
  /\ resilient \in {r \in Bare : r.retryPolicy /\ ~r.hooks}
  /\ retryPolicy \in {[q EXCEPT !.delay = delay, !.backoff = backoff] :
                        q \in Unconditional, delay \in 1..MaxD, backoff \in Backoff}
  /\ circuitBreaker = NewCircuitBreaker
  /\ inst = [p \in Calls |-> 1]
  /\ env = [calls |-> 1, interleave |-> FALSE, ctl |-> 0, isolates |-> 0,
            builds |-> 0, last |-> NoCall]

SpecBackoff == InitBackoff /\ [][NextUnguarded]_vars

\* execute calls on one Resilient instance, a call starting while another is
\* suspended at an await
InitInterleave ==
  /\ InitCommon
  /\ resilient \in {r \in Bare : r.retryPolicy}
  /\ retryPolicy \in {q \in Unconditional : q.onRetry = resilient.hooks}
  /\ circuitBreaker = NewCircuitBreaker
  /\ inst = [p \in Calls |-> 1]
  /\ env = [calls |-> NumCalls, interleave |-> TRUE, ctl |-> 0, isolates |-> 0,
            builds |-> 0, last |-> NoCall]

SpecInterleave == InitInterleave /\ [][NextUnguarded]_vars

\* ------------------------------------------------------ calls with a deadline
\* one call with a retry policy and timeoutAfter; the operations the deadline
\* overtook settle later
InitDeadline ==
  /\ InitCommon
  /\ resilient \in {r \in Resilients :
                      /\ r.retryPolicy /\ ~r.circuitBreaker /\ r.timeout > 0
                      /\ ~r.fallbackExecution}
  /\ retryPolicy \in {q \in Unconditional : q.onRetry = resilient.hooks}
  /\ circuitBreaker = NewCircuitBreaker
  /\ inst = [p \in Calls |-> 1]
  /\ env = [calls |-> 1, interleave |-> FALSE, ctl |-> 0, isolates |-> 0,
            builds |-> 0, last |-> NoCall]

NextDeadline == \E p \in Calls : Unguarded(p) \/ TimeoutFire(p) \/ LateSettle(p)

SpecDeadline == InitDeadline /\ [][NextDeadline]_vars

\* ------------------------------------------------------------ builder calls
\* the numbers a builder is called with: counts, or durations in ticks
Numbers == (0 - Ms - 1)..Ms

\* a builder call: op(arg), that passed its guard or raised
Built(op, arg, passed) ==
  /\ env.builds > 0
  /\ env' = [env EXCEPT !.builds = @ - 1,
                        !.last = [op |-> op, arg |-> arg, raised |-> ~passed]]
  /\ UNCHANGED <<executionContext, ctx, inst, pc, running, result, returned, hookLog,
                 opCalls, opLog, probes, clock, abandoned>>

\* timeoutAfter(timeout)                                (part_001 368-375)
timeoutAfter ==
  \E timeout \in Numbers :
    LET passed == assertCondition(timeout > 0) IN
    /\ Built("timeoutAfter", timeout, passed)
    /\ resilient' = IF passed THEN [resilient EXCEPT !.timeout = timeout] ELSE resilient
    /\ UNCHANGED <<retryPolicy, circuitBreaker>>

\* throttle(rateLimit)                                  (part_001 383-390)
throttle ==
  \E rateLimit \in Numbers :
    LET passed == assertCondition(rateLimit > 0) IN
    /\ Built("throttle", rateLimit, passed)
    /\ resilient' = IF passed THEN [resilient EXCEPT !.throttleLimit = rateLimit]
                    ELSE resilient
    /\ UNCHANGED <<retryPolicy, circuitBreaker>>

\* delayBetweenRetries(delay): delay > -1 millisecond (RetryPolicy.js 123-130)
delayBetweenRetries ==
  \E delay \in Numbers :
    LET passed == assertCondition(delay > 0 - Ms) IN
    /\ Built("delayBetweenRetries", delay, passed)
    /\ retryPolicy' = IF passed THEN [retryPolicy EXCEPT !.delay = delay] ELSE retryPolicy
    /\ UNCHANGED <<resilient, circuitBreaker, abandoned>>

\* stopAfter(maxAttempts)                            (RetryPolicy.js 180-187)
stopAfter ==
  \E maxAttempts \in Numbers :
    LET passed == assertCondition(maxAttempts > 0) IN
    /\ Built("stopAfter", maxAttempts, passed)
    /\ retryPolicy' = IF passed THEN [retryPolicy EXCEPT !.maxAttempts = maxAttempts]
                      ELSE retryPolicy
    /\ UNCHANGED <<resilient, circuitBreaker, abandoned>>

\* resetAfter(delay)                              (CircuitBreaker.js 139-146)
resetAfter ==
  \E delay \in Numbers :
    LET passed == assertCondition(delay > 0) IN
    /\ Built("resetAfter", delay, passed)
    /\ circuitBreaker' = IF passed THEN [circuitBreaker EXCEPT !.resetTimeout = delay]
                         ELSE circuitBreaker
    /\ UNCHANGED <<resilient, retryPolicy, abandoned>>

\* openCircuitAfter(failureThreshold)             (CircuitBreaker.js 152-159)
openCircuitAfter ==
  \E failureThreshold \in Numbers :
    LET passed == assertCondition(failureThreshold > 0) IN
    /\ Built("openCircuitAfter", failureThreshold, passed)
    /\ circuitBreaker' = IF passed
                           THEN [circuitBreaker EXCEPT !.failureThreshold = failureThreshold]
                         ELSE circuitBreaker
    /\ UNCHANGED <<resilient, retryPolicy, abandoned>>

\* new Resilient(), new RetryPolicy(), new CircuitBreaker(), then builder calls
InitBuild ==
  /\ InitCommon
  /\ resilient = [retryPolicy |-> FALSE, circuitBreaker |-> FALSE, timeout |-> 0,
                  fallbackExecution |-> FALSE, hooks |-> FALSE, rateLimit |-> 0,
                  throttleLimit |-> 0]
  /\ retryPolicy = NewRetryPolicy
  /\ circuitBreaker = NewCircuitBreaker
  /\ inst = [p \in Calls |-> 1]
  /\ env = [calls |-> 0, interleave |-> FALSE, ctl |-> 0, isolates |-> 0,
            builds |-> MaxBuilds, last |-> NoCall]

NextBuild ==
  \/ timeoutAfter \/ throttle \/ delayBetweenRetries \/ stopAfter
  \/ resetAfter \/ openCircuitAfter

SpecBuild == InitBuild /\ [][NextBuild]_vars

\* ------------------------------------------------------------------- claims
\* an attempt that faulted: the operation raised, or the deadline fired first
Faults == {"Error", "TimeoutError"}

\* the attempt's result is a value that matches no condition of the policy
Succeeds(o) ==
  /\ o \notin Faults
  /\ ~(resilient.retryPolicy /\ (canAbortIf(o) \/ canRetryIf(o)))

AllFaults(log, n) == \A i \in 1..n : log[i] \in Faults

Fired(p, h) == Count(hookLog[p], h)

\* the call's hook record is complete (it fills up only while a call is
\* rejected over and over by an open breaker)
Recorded(p) == Len(hookLog[p]) < MaxLog

\* C1: with no retry policy and no circuit breaker, execute invokes the
\* operation exactly once; a successful attempt ends the call with
\* attempts = 1, no exception and onSuccess fired (not onFailure), a faulting
\* attempt ends it with attempts = 1, one exception and onFailure fired (not
\* onSuccess).
C1_SingleAttempt ==
  \A p \in Calls :
    (~resilient.retryPolicy /\ ~resilient.circuitBreaker) =>
      /\ opCalls[p] <= 1
      /\ pc[p] = "done" =>
           /\ opCalls[p] = 1
           /\ ctx[p].attempts = 1
           /\ Len(opLog[p]) = 1
           /\ opLog[p][1] \notin Faults =>
                /\ Len(ctx[p].exceptions) = 0
                /\ returned[p] = opLog[p][1]
                /\ resilient.hooks => Fired(p, "onSuccess") = 1 /\ Fired(p, "onFailure") = 0
           /\ opLog[p][1] \in Faults =>
                /\ Len(ctx[p].exceptions) = 1
                /\ resilient.hooks => Fired(p, "onFailure") = 1 /\ Fired(p, "onSuccess") = 0

C1_Witness ==
  /\ pc[1] = "done" /\ ~resilient.retryPolicy /\ ~resilient.circuitBreaker
  /\ resilient.hooks /\ opLog[1] = <<"Error">> /\ Fired(1, "onFailure") = 1

\* C2: with stopAfter(K), no circuit breaker and an operation that faults on
\* its first F invocations and then succeeds (F < K), execute does not give up
\* before the success and ends with attempts = F + 1, F exceptions, onRetry
\* fired F times, and the success value returned.
C2_RetryUntilSuccess ==
  \A p \in Calls :
    (resilient.retryPolicy /\ ~resilient.circuitBreaker) =>
      LET n == Len(opLog[p]) IN
      /\ (AllFaults(opLog[p], n) /\ n < retryPolicy.maxAttempts) =>
           pc[p] \notin {"failure", "failureAwait", "exit", "exitAwaitF", "fallback",
                        "fallbackHookAwait", "fallbackCall", "fallbackAwait", "done"}
      /\ (pc[p] = "done" /\ n > 0 /\ AllFaults(opLog[p], n - 1) /\ Succeeds(opLog[p][n])) =>
           /\ ctx[p].attempts = n
           /\ opCalls[p] = n
           /\ Len(ctx[p].exceptions) = n - 1
           /\ retryPolicy.onRetry => Fired(p, "onRetry") = n - 1
           /\ returned[p] = opLog[p][n]

C2_Witness ==
  /\ pc[1] = "done" /\ resilient.retryPolicy /\ ~resilient.circuitBreaker
  /\ retryPolicy.maxAttempts = 3 /\ retryPolicy.onRetry
  /\ opLog[1] = <<"Error", "Error", "S">> /\ returned[1] = "S"
  /\ Fired(1, "onRetry") = 2

C4_AbortStops ==
  \A p \in Calls :
    resilient.retryPolicy =>
      \A i \in 1..Len(opLog[p]) :
        canAbortIf(opLog[p][i]) =>
          /\ opCalls[p] = i
          /\ pc[p] = "done" =>
               /\ (retryPolicy.onAbort /\ Recorded(p)) => Fired(p, "onAbort") = 1
               /\ ~resilient.fallbackExecution => returned[p] = Undefined

\* C5: a result that matches a retryIf value (and no abortIf value) is a
\* forced retry: the step that classifies it fires no hook, leaves the breaker
\* and the exceptions as they are and goes back to the loop test, which admits
\* another attempt while attempts < maxAttempts; and a call that ends after an
\* attempt whose result matches no condition returns that result.
C5_ForcedRetry ==
  [][\A p \in Calls :
       /\ (/\ running = p /\ pc[p] = "classify" /\ resilient.retryPolicy
           /\ result[p] \in retryPolicy.retryConditions \ retryPolicy.abortConditions) =>
            /\ hookLog' = hookLog
            /\ circuitBreaker' = circuitBreaker
            /\ ctx' = ctx
            /\ pc'[p] = "loop"
            /\ returned'[p] = "pending"
       /\ (/\ running = p /\ pc[p] = "loop" /\ resilient.retryPolicy
           /\ Len(opLog[p]) > 0
           /\ opLog[p][Len(opLog[p])] \in
                retryPolicy.retryConditions \ retryPolicy.abortConditions
           /\ ctx[cur(p)].attempts < retryPolicy.maxAttempts) =>
            pc'[p] \in {"wait", "retry"}
       /\ (/\ pc'[p] = "done" /\ pc[p] # "done" /\ Len(opLog[p]) > 0
           /\ Succeeds(opLog[p][Len(opLog[p])])) =>
            returned'[p] = opLog[p][Len(opLog[p])]
    ]_vars

C5_Witness ==
  /\ pc[1] = "done" /\ resilient.retryPolicy
  /\ opLog[1] = <<"R", "R", "S">> /\ returned[1] = "S"
  /\ Len(ctx[1].exceptions) = 0

\* C6: with openCircuitAfter(T), a breaker that starts Closed with counter 0
\* and an operation whose every attempt faults: the operation is invoked at
\* most T times before the breaker is Open, and no attempt made while it is
\* Open invokes the operation (until the reset timer makes it Half-Open).
C6_OpenRejects ==
  \A p \in Calls :
    (/\ resilient.circuitBreaker
     /\ AllFaults(opLog[p], Len(opLog[p]))
     /\ \A i \in 1..Len(circuitBreaker.trips) : circuitBreaker.trips[i][2] # HalfOpen) =>
      /\ opCalls[p] <= circuitBreaker.failureThreshold
      /\ pc[p] = "race" => circuitBreaker.state # Open

\* C7: once the reset timer has made the breaker Half-Open, exactly one
\* attempt is admitted as the probe; no second attempt is admitted unless the
\* breaker was closed in between.
C7_SingleProbe == probes.armed => probes.n <= 1

\* C8: whenever the breaker has entered Open (by a trip or by open()), it
\* becomes Half-Open on its own unless close() is called first.
C8_EventuallyHalfOpen ==
  [](circuitBreaker.state = Open => <>(circuitBreaker.state \in {HalfOpen, Closed}))

\* C9: when execute returns through the success path with a breaker attached,
\* the breaker is Closed and its fault counter is 0.
C9_ClosedOnReturn ==
  \A p \in Calls :
    (pc[p] = "return" /\ resilient.circuitBreaker) =>
      circuitBreaker.state = Closed /\ circuitBreaker.attempts = 0

\* C10: close(), in whatever state and with whatever counter the breaker is,
\* leaves it Closed with counter 0, no reset timer pending and no open
\* timestamp.
C10_CloseResets ==
  [][\A p \in Calls :
       (running = p /\ pc[p] = "close" /\ resilient.circuitBreaker) =>
         /\ circuitBreaker'.state = Closed
         /\ circuitBreaker'.attempts = 0
         /\ circuitBreaker'.pending = 0
         /\ circuitBreaker'.openTimestamp # "now"
    ]_vars

\* C11: isolate(), in whatever state the breaker is, leaves it in state
\* Isolated; while it is Isolated an attempt that reaches the breaker is
\* rejected with an OpenCircuitError and does not invoke the operation; and
\* the breaker leaves Isolated only for Closed, by a close().
C11_IsolateIsolates ==
  [][/\ env'.isolates < env.isolates => circuitBreaker'.state = Isolated
     /\ \A p \in Calls :
          (circuitBreaker.state = Isolated /\ running = p /\ pc[p] = "breaker") =>
            /\ opCalls' = opCalls
            /\ pc'[p] = "loop"
            /\ ctx'[cur(p)].exceptions = Push(ctx[cur(p)].exceptions, "OpenCircuitError", MaxExc)
     /\ (circuitBreaker.state = Isolated /\ circuitBreaker'.state # Isolated) =>
          /\ circuitBreaker'.state = Closed
          /\ env'.ctl < env.ctl \/ \E p \in Calls : running = p /\ pc[p] = "close"
    ]_vars

\* the error an attempt with outcome o ends in ("none": it ends in no error)
ErrorOf(o) ==
  IF o \in Faults THEN o
  ELSE IF resilient.retryPolicy /\ canAbortIf(o) /\ ~retryPolicy.onAbort THEN "TypeError"
  ELSE "none"

\* the errors the attempts recorded in log ended in, in order
Errors(log) ==
  SelectSeq([i \in 1..Len(log) |-> ErrorOf(log[i])], LAMBDA e : e # "none")

\* the call is not in the middle of handling an attempt's outcome
Handled(p) == pc[p] \notin {"classify", "catch", "timeoutAwait", "push"}

\* the call's last attempt ended with a result that matches no condition
Succeeded(p) == Len(opLog[p]) > 0 /\ Succeeds(opLog[p][Len(opLog[p])])

\* C12: with timeoutAfter configured, an attempt whose operation settles
\* before the deadline fires no onTimeout and its result is the one
\* classified; an attempt whose deadline fires first fires onTimeout exactly
\* once and leaves a TimeoutError in exceptions as that attempt's error.
C12_Timeout ==
  \A p \in Calls :
    /\ resilient.timeout = 0 => Count(opLog[p], "TimeoutError") = 0
    /\ pc[p] = "classify" =>
         /\ result[p] = opLog[p][Len(opLog[p])]
         /\ result[p] # "TimeoutError"
    /\ Handled(p) =>
         /\ (resilient.hooks /\ Recorded(p)) =>
              Fired(p, "onTimeout") = Count(opLog[p], "TimeoutError")
         /\ Len(ctx[p].exceptions) < MaxExc =>
              Count(ctx[p].exceptions, "TimeoutError") = Count(opLog[p], "TimeoutError")
         /\ (~resilient.circuitBreaker /\ Len(ctx[p].exceptions) < MaxExc) =>
              LET errors == Errors(opLog[p]) IN
              /\ Len(ctx[p].exceptions) = Len(errors)
              /\ \A i \in 1..Len(errors) :
                   (errors[i] = "TimeoutError") <=> (ctx[p].exceptions[i] = "TimeoutError")

C12_Witness ==
  /\ pc[1] = "done" /\ resilient.timeout > 0 /\ resilient.hooks
  /\ opLog[1] = <<"TimeoutError", "S">>
  /\ Fired(1, "onTimeout") = 1
  /\ ctx[1].exceptions = <<"TimeoutError">>
  /\ returned[1] = "S"

\* C13: when the loop ends without success and a fallback is configured,
\* onFallback fires exactly once, the fallback is invoked exactly once and
\* execute returns what the fallback returns (or raises what it raises); the
\* fallback is never invoked when an attempt succeeded, nor when none is
\* configured.
C13_Fallback ==
  \A p \in Calls :
    /\ Fired(p, "fallback") <= 1
    /\ Fired(p, "onFallback") <= 1
    /\ ~resilient.fallbackExecution => Fired(p, "fallback") = 0 /\ Fired(p, "onFallback") = 0
    /\ pc[p] \in {"successAwait", "close", "exitAwaitS", "return"} =>
         Fired(p, "fallback") = 0 /\ Fired(p, "onFallback") = 0
    /\ (pc[p] = "done" /\ resilient.fallbackExecution /\ Recorded(p)) =>
         IF Succeeded(p)
           THEN /\ Fired(p, "fallback") = 0 /\ Fired(p, "onFallback") = 0
                /\ returned[p] = opLog[p][Len(opLog[p])]
           ELSE /\ Fired(p, "fallback") = 1
                /\ resilient.hooks => Fired(p, "onFallback") = 1
                /\ returned[p] \in {"FB", "raised"}

C13_Witness ==
  /\ pc[1] = "done" /\ resilient.fallbackExecution /\ resilient.hooks
  /\ ~resilient.retryPolicy /\ opLog[1] = <<"Error">>
  /\ Fired(1, "onFallback") = 1 /\ Fired(1, "fallback") = 1 /\ returned[1] = "FB"

\* C14: an error of the operation, of a breaker rejection or of the deadline
\* is never raised out of execute: it is appended to exceptions and the loop
\* goes on; execute raises only what a fallback raises, and a call whose loop
\* ends without success and without a fallback returns undefined.
C14_ErrorsCaptured ==
  /\ [](\A p \in Calls :
          /\ returned[p] = "raised" => resilient.fallbackExecution /\ pc[p] = "done"
          /\ (Handled(p) /\ Len(ctx[p].exceptions) < MaxExc) =>
               SelectSeq(ctx[p].exceptions, LAMBDA e : e # "OpenCircuitError") =
                 Errors(opLog[p])
          /\ (pc[p] = "done" /\ ~resilient.fallbackExecution /\ ~Succeeded(p)) =>
               returned[p] = Undefined)
  /\ [][\A p \in Calls :
          /\ (/\ running = p /\ pc[p] = "breaker" /\ resilient.circuitBreaker
              /\ breakerRejects(circuitBreaker)) =>
               /\ ctx'[p].exceptions = Push(ctx[p].exceptions, "OpenCircuitError", MaxExc)
               /\ pc'[p] = "loop"
               /\ returned'[p] = "pending"
          /\ (running = p /\ pc[p] = "push") =>
               /\ ctx'[p].exceptions = Push(ctx[p].exceptions, result[p], MaxExc)
               /\ pc'[p] = "loop"
               /\ returned'[p] = "pending"
       ]_vars

C14_Witness ==
  /\ pc[1] = "done" /\ resilient.circuitBreaker /\ resilient.timeout > 0
  /\ ~resilient.fallbackExecution /\ returned[1] = Undefined
  /\ Count(ctx[1].exceptions, "OpenCircuitError") > 0
  /\ Count(ctx[1].exceptions, "TimeoutError") > 0
  /\ Count(ctx[1].exceptions, "Error") > 0

\* the hooks of the call's lifecycle it fired, in order (onRetry, onTimeout
\* and onAbort belong to single attempts)
Lifecycle(p) ==
  SelectSeq(hookLog[p],
            LAMBDA h : h \in {"onEntry", "onSuccess", "onFailure", "onExit", "onFallback",
                              "fallback"})

IsPrefix(s, t) == Len(s) <= Len(t) /\ \A i \in 1..Len(s) : s[i] = t[i]

SuccessOrder == <<"onEntry", "onSuccess", "onExit">>

FailureOrder ==
  IF resilient.fallbackExecution
    THEN <<"onEntry", "onFailure", "onExit", "onFallback", "fallback">>
    ELSE <<"onEntry", "onFailure", "onExit">>

\* C15: with the hooks registered, one execute call fires onEntry before any
\* attempt, then either onSuccess, the breaker's close and onExit before it
\* returns, or onFailure, onExit, onFallback and the fallback; none of them
\* twice, none out of this order.
C15_HookOrder ==
  \A p \in Calls :
    (resilient.hooks /\ Recorded(p)) =>
      /\ IsPrefix(Lifecycle(p), SuccessOrder) \/ IsPrefix(Lifecycle(p), FailureOrder)
      /\ opCalls[p] > 0 => hookLog[p][1] = "onEntry"
      /\ pc[p] = "close" => Lifecycle(p) = <<"onEntry", "onSuccess">>
      /\ (pc[p] \in {"exitAwaitS", "return"} /\ resilient.circuitBreaker) =>
           circuitBreaker.state = Closed
      /\ pc[p] = "done" =>
           Lifecycle(p) = IF Succeeded(p) THEN SuccessOrder ELSE FailureOrder

C15_Witness ==
  /\ pc[1] = "done" /\ resilient.hooks /\ resilient.fallbackExecution
  /\ resilient.circuitBreaker /\ resilient.retryPolicy /\ retryPolicy.onRetry
  /\ Fired(1, "onRetry") > 0
  /\ Lifecycle(1) = <<"onEntry", "onFailure", "onExit", "onFallback", "fallback">>

RECURSIVE Total(_, _)
Total(Hook, S) ==
  IF S = {} THEN 0
  ELSE LET q == CHOOSE x \in S : TRUE IN Fired(q, Hook) + Total(Hook, S \ {q})

\* C16: with throttle(R) called and N execute calls made one after the other
\* on the orchestrator, onEntry and onExit have each fired exactly N times
\* and onThrottled exactly max(0, N - R) times once the calls are over.
C16_ThrottleCounts ==
  LET N == env.calls
      R == resilient.throttleLimit
  IN (/\ resilient.hooks /\ R > 0
      /\ \A p \in 1..N : pc[p] = "done" /\ Recorded(p)) =>
       /\ Total("onEntry", 1..N) = N
       /\ Total("onExit", 1..N) = N
       /\ Total("onThrottled", 1..N) = IF N > R THEN N - R ELSE 0

\* C17: after throttle(rate), the orchestrator's first invocation of the
\* operation runs at once and every later invocation comes at least rate
\* time units after the one before it.
C17_Throttled ==
  [][\A p \in Calls :
       (resilient.throttleLimit > 0 /\ opCalls'[p] > opCalls[p]) =>
         clock.since = -1 \/ clock.since >= resilient.throttleLimit
    ]_vars

\* C18: in every state of every execute call, whatever the retry policy, the
\* breaker and the timeout: exceptions.length <= attempts.
C18_ExceptionsWithinAttempts ==
  \A p \in Calls : Len(ctx[p].exceptions) <= ctx[p].attempts

\* D * (1^1 + 2^2 + ... + n^n)
RECURSIVE ExponentialSum(_, _)
ExponentialSum(D, n) == IF n = 0 THEN 0 ELSE ExponentialSum(D, n - 1) + n ^ n * D

\* C19: the wait before the retry that follows n started attempts is D
\* (Static), n * D (Linear) or n^n * D (Exponential); so a call without
\* breaker rejections that has waited w times has waited w * D,
\* D * (1 + ... + w) or D * (1^1 + ... + w^w) in total.
C19_BackoffLaws ==
  \A p \in Calls :
    LET D == retryPolicy.delay
        n == opCalls[p]
        w == IF pc[p] \in {"retry", "retryAwait", "breaker"} THEN n
             ELSE IF n = 0 THEN 0 ELSE n - 1
    IN (resilient.retryPolicy /\ ~resilient.circuitBreaker /\ D > 0) =>
         /\ pc[p] = "wait" =>
              /\ retryPolicy.backoff = "Static" => clock.timer[p] = D
              /\ retryPolicy.backoff = "Linear" => clock.timer[p] = n * D
              /\ retryPolicy.backoff = "Exponential" => clock.timer[p] = n ^ n * D
         /\ retryPolicy.backoff = "Static" => clock.waited[p] = w * D
         /\ retryPolicy.backoff = "Linear" => 2 * clock.waited[p] = D * w * (w + 1)
         /\ retryPolicy.backoff = "Exponential" => clock.waited[p] = ExponentialSum(D, w)

C19_Witness ==
  /\ pc[1] = "done" /\ retryPolicy.backoff = "Exponential" /\ retryPolicy.delay = 2
  /\ opCalls[1] = 3 /\ clock.waited[1] = 10

\* C20: when execute calls on one Resilient interleave, the steps of a call
\* leave the context of every other call as it is, and the call leaves the
\* loop exactly when its own attempts have reached the bound.
C20_OwnContext ==
  [][\A p \in Calls :
       running = p =>
         /\ \A q \in Calls \ {p} : ctx'[q] = ctx[q]
         /\ pc[p] = "loop" => (pc'[p] = "failure" <=> ~shouldRetry(ctx[p].attempts))
    ]_vars

\* C21: stopAfter(0) makes the policy retry forever: the call is accepted and
\* leaves maxAttempts = 0, the value with which the loop test never fails.
C21_StopAfterZero ==
  [][(env'.builds < env.builds /\ env'.last.op = "stopAfter" /\ env'.last.arg = 0) =>
       /\ ~env'.last.raised
       /\ retryPolicy'.maxAttempts = 0
    ]_vars

\* where a call is once its loop has ended without success
GivenUp == {"failure", "failureAwait", "exit", "exitAwaitF", "fallback",
            "fallbackHookAwait", "fallbackCall", "fallbackAwait", "done"}

\* C22: with a circuit breaker and no retry policy, execute keeps making
\* attempts while the operation faults: it does not give up as long as no
\* attempt has succeeded.
C22_BreakerRetriesForever ==
  \A p \in Calls :
    (/\ resilient.circuitBreaker /\ ~resilient.retryPolicy
     /\ AllFaults(opLog[p], Len(opLog[p]))) =>
      pc[p] \notin GivenUp

\* the builder call was made with an argument outside the builder's range
OutOfRange(call) ==
  \/ /\ call.op \in {"timeoutAfter", "throttle", "stopAfter", "openCircuitAfter",
                      "resetAfter"}
     /\ call.arg <= 0
  \/ call.op = "delayBetweenRetries" /\ call.arg < 0

\* C23: a builder call with an out-of-range argument raises an argument
\* error and leaves every configuration field as it was.
C23_BuildersValidate ==
  [][(env'.builds < env.builds /\ OutOfRange(env'.last)) =>
       /\ env'.last.raised
       /\ UNCHANGED <<resilient, retryPolicy, circuitBreaker, abandoned>>
    ]_vars

\* C24: an execute call with no retry policy or a finite stopAfter(K)
\* eventually returns, whatever the breaker's state at entry, the delay and
\* the onRetry hook, when every invocation of the operation settles and
\* pending timers fire while the call is suspended.
C24_Terminates == \A p \in Calls : (pc[p] # "idle") ~> (pc[p] = "done")

\* C25: when every invocation of the operation succeeds, execute calls that
\* share a breaker never trip it: it stays Closed, onTrip never fires and no
\* attempt is rejected.
C25_SuccessNeverTrips ==
  (/\ env.ctl = MaxCtl
   /\ \A p \in Calls : \A i \in 1..Len(opLog[p]) : opLog[p][i] = "S") =>
    /\ circuitBreaker.state = Closed
    /\ circuitBreaker.trips = <<>>
    /\ \A p \in Calls : Count(ctx[p].exceptions, "OpenCircuitError") = 0

\* C26: an attempt rejected by an Open breaker leaves the breaker's counter,
\* state, reset timer and open timestamp as they are, does not invoke the
\* operation and appends exactly one OpenCircuitError to the call's
\* exceptions.
C26_RejectionFrame ==
  [][\A p \in Calls :
       (/\ running = p /\ pc[p] = "breaker" /\ resilient.circuitBreaker
        /\ circuitBreaker.state = Open) =>
         /\ circuitBreaker' = circuitBreaker
         /\ opCalls' = opCalls /\ opLog' = opLog /\ hookLog' = hookLog
         /\ ctx'[p].attempts = ctx[p].attempts
         /\ Len(ctx[p].exceptions) < MaxExc =>
              ctx'[p].exceptions = Append(ctx[p].exceptions, "OpenCircuitError")
    ]_vars

C26_Witness ==
  /\ pc[1] = "loop" /\ circuitBreaker.state = Open /\ circuitBreaker.pending = 1
  /\ circuitBreaker.failureThreshold = 1 /\ circuitBreaker.attempts = 2
  /\ ctx[1].exceptions = <<"Error", "Error", "OpenCircuitError">>
  /\ opCalls[1] = 2

\* C27: onTrip fires exactly once for each change of the breaker's state,
\* with the states before and after it, which differ; open() while Open and
\* close() while Closed change no field and fire no hook.
C27_TripPerChange ==
  [][/\ (circuitBreaker'.state # circuitBreaker.state
         /\ Len(circuitBreaker.trips) < MaxTrips) =>
            circuitBreaker'.trips =
              Append(circuitBreaker.trips, <<circuitBreaker.state, circuitBreaker'.state>>)
     /\ circuitBreaker'.state = circuitBreaker.state =>
          circuitBreaker'.trips = circuitBreaker.trips
     /\ (env'.ctl < env.ctl /\ circuitBreaker'.state = circuitBreaker.state) =>
          circuitBreaker' = circuitBreaker
     /\ \A i \in 1..Len(circuitBreaker'.trips) :
          circuitBreaker'.trips[i][1] # circuitBreaker'.trips[i][2]
    ]_vars

C27_Witness ==
  /\ env.ctl = 0
  /\ Len(circuitBreaker.trips) = 3
  /\ circuitBreaker.trips[1] = <<Closed, Open>>
  /\ circuitBreaker.trips[2] = <<Open, HalfOpen>>
  /\ circuitBreaker.trips[3] = <<HalfOpen, Open>>

Edges ==
  {<<Closed, Open>>, <<Open, HalfOpen>>, <<HalfOpen, Open>>, <<HalfOpen, Closed>>,
   <<Open, Closed>>}

\* C28: under attempts, open(), close() and timer expiries the breaker's
\* state changes only along Closed->Open, Open->HalfOpen, HalfOpen->Open,
\* HalfOpen->Closed and Open->Closed; a reset timer never moves a Closed
\* breaker to HalfOpen.
C28_Edges ==
  [][circuitBreaker'.state # circuitBreaker.state =>
       <<circuitBreaker.state, circuitBreaker'.state>> \in Edges
    ]_vars

C28_Witness ==
  /\ circuitBreaker.state = Closed /\ circuitBreaker.pending = 0
  /\ \E i \in 1..Len(circuitBreaker.trips) : circuitBreaker.trips[i] = <<Open, Closed>>
  /\ \E i \in 1..Len(circuitBreaker.trips) : circuitBreaker.trips[i] = <<HalfOpen, Closed>>
  /\ \E i \in 1..Len(circuitBreaker.trips) : circuitBreaker.trips[i] = <<HalfOpen, Open>>

\* C29: the onRetry hook of a retry has been invoked by the time the retry's
\* delay is over, and once before the retried attempt when the delay is 0.
C29_RetryHookBeforeDelayEnds ==
  \A p \in Calls :
    (/\ resilient.retryPolicy /\ retryPolicy.onRetry /\ ~resilient.circuitBreaker
     /\ Recorded(p)) =>
      /\ (pc[p] = "retry" /\ retryPolicy.delay > 0) => Fired(p, "onRetry") = opCalls[p]
      /\ (pc[p] = "breaker" /\ opCalls[p] > 0) => Fired(p, "onRetry") = opCalls[p]

\* C30: with a timeout and a retry policy the attempts of a call come one
\* after the other, each invoked only when the one before has been
\* classified; an operation overtaken by the deadline counts as a
\* TimeoutError, and when it settles later that changes neither execute's
\* return value nor its exceptions and fires no hook.
C30_AbandonedIgnored ==
  [][\A p \in Calls :
       /\ opCalls'[p] > opCalls[p] =>
            /\ pc[p] = "breaker"
            /\ Len(opLog[p]) = opCalls[p]
            /\ Len(ctx[p].exceptions) = Len(Errors(opLog[p]))
       /\ abandoned'[p] > abandoned[p] => result'[p] = "TimeoutError"
       /\ abandoned'[p] < abandoned[p] =>
            /\ returned' = returned /\ result' = result
            /\ ctx' = ctx
            /\ hookLog' = hookLog
            /\ pc' = pc
    ]_vars

C30_Witness ==
  /\ pc[1] = "done" /\ opLog[1] = <<"TimeoutError", "S">>
  /\ abandoned[1] = 0
  /\ returned[1] = "S" /\ ctx[1].exceptions = <<"TimeoutError">>

\* C31: in every execute call startTime is assigned exactly once, at the
\* first loop iteration, and never again, also when the breaker rejects
\* iterations before the first attempt is counted.
C31_StartTimeOnce ==
  \A p \in Calls :
    /\ ctx[p].startTime <= 1
    /\ (pc[p] \notin {"idle", "entryAwait", "loop"}) => ctx[p].startTime = 1

\* C32: in every state of an execute call, the context's attempts equals the
\* number of times that call has invoked the operation, and never exceeds
\* maxAttempts with a policy attached (1 with no policy); each invocation
\* increases it by exactly 1.
C32_AttemptsCountInvocations ==
  \A p \in Calls :
    pc[p] # "idle" =>
      /\ ctx[p].attempts = opCalls[p]
      /\ IF resilient.retryPolicy
           THEN retryPolicy.maxAttempts >= 1 =>
                  ctx[p].attempts <= retryPolicy.maxAttempts
           ELSE ctx[p].attempts <= 1

\* C33: in every execute call that has returned, exactly one of onSuccess and
\* onFailure has fired and onExit has fired exactly once; onAbort is followed
\* by onFailure and never by onSuccess.
C33_OneOutcome ==
  \A p \in Calls :
    Recorded(p) =>
      /\ (pc[p] = "done" /\ resilient.hooks) =>
           /\ Fired(p, "onSuccess") + Fired(p, "onFailure") = 1
           /\ Fired(p, "onExit") = 1
      /\ \A i \in 1..Len(hookLog[p]) :
           hookLog[p][i] = "onAbort" =>
             /\ \A j \in 1..Len(hookLog[p]) : hookLog[p][j] # "onSuccess"
             /\ (pc[p] = "done" /\ resilient.hooks) =>
                  \E j \in (i + 1)..Len(hookLog[p]) : hookLog[p][j] = "onFailure"

C33_Witness ==
  /\ pc[1] = "done" /\ resilient.hooks /\ Recorded(1)
  /\ opCalls[1] >= 2
  /\ Fired(1, "onAbort") = 1 /\ Fired(1, "onFailure") = 1 /\ Fired(1, "onExit") = 1

C35_TimerIffOpen ==
  /\ circuitBreaker.pending > 0 <=> circuitBreaker.state = Open
  /\ circuitBreaker.pending <= 1
  /\ circuitBreaker.timerLive <=> circuitBreaker.pending = 1

\* the breaker is Open again after a reset timer expired, with one timer pending
C35_Witness ==
  /\ circuitBreaker.state = Open /\ circuitBreaker.pending = 1
  /\ \E i, j \in 1..Len(circuitBreaker.trips) :
       /\ i < j
       /\ circuitBreaker.trips[i] = <<Open, HalfOpen>>
       /\ circuitBreaker.trips[j][2] = Open

====
